---- MODULE Spec2Model ----
(***************************************************************************)
(* Model of makebeliv's streaming core:                                    *)
(*   - AudioBuffer (src/src/audio.rs): a Mutex<Vec<f32>> with a fixed      *)
(*     capacity, shared by a producer thread (push) and a consumer thread  *)
(*     (take, len, clear);                                                 *)
(*   - VoiceConversionClient (src/src/client.rs) and the two entry points  *)
(*     of src/src/main.rs that probe the server before using it.           *)
(* Samples are modelled by their position in the pushed stream (1, 2, ...),*)
(* so that loss, duplication and reordering are visible.                   *)
(***************************************************************************)
EXTENDS Integers, Sequences, FiniteSets, TLC

\* ------------------------------------------------------------------ bounds
\* Largest capacity an AudioBuffer is constructed with.
MaxCap == 3
\* A pushed batch or a take count is at most capacity + MaxOver long.
MaxOver == 1
\* Total number of samples handed to push over a run.
MaxSamples == 5

VARIABLES
    capacity,   \* AudioBuffer.capacity
    buffer,     \* the Vec<f32> inside the Mutex
    poisoned,   \* the Mutex's poison flag
    mutex,      \* who holds the Mutex: "free", "producer", "consumer"
    ppc,        \* producer's position inside push: "idle", "check", "extend"
    pdata,      \* push's argument `data`
    ppre,       \* the Vec as push found it when it took the lock
    cpc,        \* consumer's position inside take: "idle", "body"
    ccount,     \* take's argument `len`
    nextId,     \* the next sample the capture side will hand to push
    taken,      \* every sample take has returned, in order
    evicted,    \* samples drained by push's overflow branch
    cleared,    \* samples dropped by clear()
    oversized,  \* some push was called with more than `capacity` samples
    ops,        \* the last two completed calls, oldest first
    cmd,        \* what this run does: a subcommand of main, or a call of the client
    inputExists,\* process: `input.exists()`
    mpc,        \* position in the run: "start", "probe", "probed", "convert", "done"
    requests,   \* the HTTP requests issued so far, in order
    resp,       \* the server's answer to the latest request
    statusRes,  \* what check_status returned
    result      \* what the run returned

bufVars == <<capacity, buffer, poisoned, mutex, ppc, pdata, ppre, cpc, ccount,
             nextId, taken, evicted, cleared, oversized, ops>>

cliVars == <<cmd, inputExists, mpc, requests, resp, statusRes, result>>

vars == <<bufVars, cliVars>>

\* ------------------------------------------------------------- Vec helpers
Range(s) == {s[i] : i \in 1..Len(s)}

\* The samples nextId .. nextId+n-1 as a batch.
Batch(from, n) == [i \in 1..n |-> from + i - 1]

\* Vec::drain(0..n) panics when n exceeds the length.
DrainOk(buf, n) == n <= Len(buf)

\* Mutation of DrainRemoved: the drain yields the newest n elements.
DrainRemoved_Newest(buf, n) == SubSeq(buf, Len(buf) - n + 1, Len(buf))

\* Vec::drain(0..n): the elements removed ...
DrainRemoved(buf, n) == SubSeq(buf, 1, n)

\* Mutation of DrainRest: the drain drops the newest n elements, not the oldest.
DrainRest_DropNewest(buf, n) == SubSeq(buf, 1, Len(buf) - n)

\* ... and the elements left in the Vec.
DrainRest(buf, n) == SubSeq(buf, n + 1, Len(buf))

\* Vec::extend_from_slice
ExtendFromSlice(buf, data) == buf \o data

\* ------------------------------------------------------- AudioBuffer::push
\* Mutation of NeedsEvict: the capacity check is missing.
NeedsEvict_Never(len, dlen, cap) == FALSE

\* `if buffer.len() + data.len() > self.capacity`
NeedsEvict(len, dlen, cap) == len + dlen > cap

\* Mutation of Overflow: off by one, one sample too many is drained.
Overflow_OffByOne(len, dlen, cap) == len + dlen - cap + 1

\* `let overflow = buffer.len() + data.len() - self.capacity;`
Overflow(len, dlen, cap) == len + dlen - cap

\* ------------------------------------------------------- AudioBuffer::take
\* Mutation of HasEnough: `>` instead of `>=`.
HasEnough_Strict(blen, count) == blen > count

\* `if buffer.len() >= len`
HasEnough(blen, count) == blen >= count

\* Mutation of TakeRet: a short buffer yields a short (partial) read.
TakeRet_Partial(buf, count) ==
    DrainRemoved(buf, IF count <= Len(buf) THEN count ELSE Len(buf))

\* What take returns, and what it leaves in the Vec.
TakeRet(buf, count) == IF HasEnough(Len(buf), count) THEN DrainRemoved(buf, count) ELSE <<>>

TakeRest(buf, count) == IF HasEnough(Len(buf), count) THEN DrainRest(buf, count) ELSE buf

\* ------------------------------------------------------------ call history
OpRecord(op, data, count, pre, post, ret, ok) ==
    [op |-> op, data |-> data, count |-> count, pre |-> pre, post |-> post,
     ret |-> ret, ok |-> ok]

Logged(r) == IF Len(ops) < 2 THEN Append(ops, r) ELSE <<ops[2], r>>

\* ------------------------------------------------------------------- Init
\* AudioBuffer::new(capacity): an empty Vec, an unpoisoned free Mutex.
InitBuffer ==
    /\ capacity \in 1..MaxCap
    /\ buffer = <<>>
    /\ poisoned = FALSE
    /\ mutex = "free"
    /\ ppc = "idle"
    /\ pdata = <<>>
    /\ ppre = <<>>
    /\ cpc = "idle"
    /\ ccount = 0
    /\ nextId = 1
    /\ taken = <<>>
    /\ evicted = {}
    /\ cleared = {}
    /\ oversized = FALSE
    /\ ops = <<>>

\* ---------------------------------------------------------------- actions
\* push, line 139: `self.buffer.lock().unwrap()`. lock() waits for the Mutex;
\* on a poisoned Mutex it returns Err and unwrap panics (the guard inside the
\* error is dropped, so the Mutex is free again).
PushLock(n) ==
    /\ ppc = "idle"
    /\ mutex = "free"
    /\ nextId + n - 1 <= MaxSamples
    /\ nextId' = nextId + n
    /\ oversized' = (oversized \/ n > capacity)
    /\ IF poisoned
       THEN /\ ops' = Logged(OpRecord("push", Batch(nextId, n), 0, buffer, buffer, <<>>, FALSE))
            /\ UNCHANGED <<mutex, ppc, pdata, ppre>>
       ELSE /\ mutex' = "producer"
            /\ ppc' = "check"
            /\ pdata' = Batch(nextId, n)
            /\ ppre' = buffer
            /\ UNCHANGED ops
    /\ UNCHANGED <<capacity, buffer, poisoned, cpc, ccount, taken, evicted, cleared>>
    /\ UNCHANGED cliVars

\* push, lines 142-146: the capacity check and the drain of the oldest samples.
\* drain(0..overflow) panics when overflow exceeds the length; the unwinding
\* drops the guard, which poisons and frees the Mutex.
PushCheck ==
    /\ ppc = "check"
    /\ mutex = "producer"
    /\ IF NeedsEvict(Len(buffer), Len(pdata), capacity)
       THEN IF DrainOk(buffer, Overflow(Len(buffer), Len(pdata), capacity))
            THEN /\ buffer' = DrainRest(buffer, Overflow(Len(buffer), Len(pdata), capacity))
                 /\ evicted' = evicted \cup
                        Range(DrainRemoved(buffer, Overflow(Len(buffer), Len(pdata), capacity)))
                 /\ ppc' = "extend"
                 /\ UNCHANGED <<poisoned, mutex, pdata, ppre, ops>>
            ELSE /\ poisoned' = TRUE
                 /\ mutex' = "free"
                 /\ ppc' = "idle"
                 /\ pdata' = <<>>
                 /\ ppre' = <<>>
                 /\ ops' = Logged(OpRecord("push", pdata, 0, ppre, buffer, <<>>, FALSE))
                 /\ UNCHANGED <<buffer, evicted>>
       ELSE /\ ppc' = "extend"
            /\ UNCHANGED <<buffer, evicted, poisoned, mutex, pdata, ppre, ops>>
    /\ UNCHANGED <<capacity, cpc, ccount, nextId, taken, cleared, oversized>>
    /\ UNCHANGED cliVars

\* push, lines 148-149: extend_from_slice, then the guard is dropped.
PushExtend ==
    /\ ppc = "extend"
    /\ mutex = "producer"
    /\ buffer' = ExtendFromSlice(buffer, pdata)
    /\ mutex' = "free"
    /\ ppc' = "idle"
    /\ pdata' = <<>>
    /\ ppre' = <<>>
    /\ ops' = Logged(OpRecord("push", pdata, 0, ppre, ExtendFromSlice(buffer, pdata), <<>>, TRUE))
    /\ UNCHANGED <<capacity, poisoned, cpc, ccount, nextId, taken, evicted, cleared, oversized>>
    /\ UNCHANGED cliVars

\* take, line 153: `self.buffer.lock().unwrap()`.
TakeLock(count) ==
    /\ cpc = "idle"
    /\ mutex = "free"
    /\ IF poisoned
       THEN /\ ops' = Logged(OpRecord("take", <<>>, count, buffer, buffer, <<>>, FALSE))
            /\ UNCHANGED <<mutex, cpc, ccount>>
       ELSE /\ mutex' = "consumer"
            /\ cpc' = "body"
            /\ ccount' = count
            /\ UNCHANGED ops
    /\ UNCHANGED <<capacity, buffer, poisoned, ppc, pdata, ppre, nextId, taken, evicted,
                   cleared, oversized>>
    /\ UNCHANGED cliVars

\* take, lines 155-162: the length check, the drain, the return (guard dropped).
TakeBody ==
    /\ cpc = "body"
    /\ mutex = "consumer"
    /\ buffer' = TakeRest(buffer, ccount)
    /\ taken' = taken \o TakeRet(buffer, ccount)
    /\ mutex' = "free"
    /\ cpc' = "idle"
    /\ ccount' = 0
    /\ ops' = Logged(OpRecord("take", <<>>, ccount, buffer, TakeRest(buffer, ccount),
                              TakeRet(buffer, ccount), TRUE))
    /\ UNCHANGED <<capacity, poisoned, ppc, pdata, ppre, nextId, evicted, cleared, oversized>>
    /\ UNCHANGED cliVars

\* len, line 166: lock, read the length, drop the guard, in one statement.
LenCall ==
    /\ cpc = "idle"
    /\ mutex = "free"
    /\ ops' = Logged(OpRecord("len", <<>>, IF poisoned THEN 0 ELSE Len(buffer),
                              buffer, buffer, <<>>, ~poisoned))
    /\ UNCHANGED <<capacity, buffer, poisoned, mutex, ppc, pdata, ppre, cpc, ccount, nextId,
                   taken, evicted, cleared, oversized>>
    /\ UNCHANGED cliVars

\* clear, line 171: lock, Vec::clear, drop the guard, in one statement.
ClearCall ==
    /\ cpc = "idle"
    /\ mutex = "free"
    /\ IF poisoned
       THEN /\ ops' = Logged(OpRecord("clear", <<>>, 0, buffer, buffer, <<>>, FALSE))
            /\ UNCHANGED <<buffer, cleared>>
       ELSE /\ buffer' = <<>>
            /\ cleared' = cleared \cup Range(buffer)
            /\ ops' = Logged(OpRecord("clear", <<>>, 0, buffer, <<>>, <<>>, TRUE))
    /\ UNCHANGED <<capacity, poisoned, mutex, ppc, pdata, ppre, cpc, ccount, nextId, taken,
                   evicted, oversized>>
    /\ UNCHANGED cliVars


\* ============================================ VoiceConversionClient, main
\* What the server does with one request: the connection fails, or it answers
\* with a status and a body; reading the body can fail half-way.
Unreachable == [net |-> "unreachable", status |-> 0, body |-> "", readable |-> FALSE]

NoResponse == [net |-> "none", status |-> 0, body |-> "", readable |-> FALSE]

StatusCodes == {200, 404, 500}

Bodies == {"json", "wav", "text"}

Responses ==
    {Unreachable} \cup
    [net : {"answered"}, status : StatusCodes, body : Bodies, readable : BOOLEAN]

\* anyhow results: Ok(value) and Err(context).
Ok(v) == [called |-> TRUE, ok |-> TRUE, value |-> v, error |-> ""]

Err(e) == [called |-> TRUE, ok |-> FALSE, value |-> "", error |-> e]

NotCalled == [called |-> FALSE, ok |-> FALSE, value |-> "", error |-> ""]

\* reqwest: send() fails on a connection error only; any answer, whatever its
\* status, is Ok(response).
SendFails(r) == r.net = "unreachable"

\* check_status: GET /status, then the body parsed as JSON.
CheckStatus(r) ==
    IF SendFails(r) THEN Err("status request")
    ELSE IF ~r.readable \/ r.body # "json" THEN Err("json")
    ELSE Ok(r.body)

\* convert_chunk: POST /convert-chunk, then the body's bytes.
ConvertChunk(r) ==
    IF SendFails(r) THEN Err("chunk request")
    ELSE IF ~r.readable THEN Err("chunk body")
    ELSE Ok(r.body)

\* reset_session: POST /reset-session; the response is not looked at.
ResetSession(r) == IF SendFails(r) THEN Err("reset request") ELSE Ok("")

\* convert_file: read the input, POST /convert, read the body, write the output.
ConvertFile(readOk, r, writeOk) ==
    IF ~readOk THEN Err("input read")
    ELSE IF SendFails(r) THEN Err("convert request")
    ELSE IF ~r.readable THEN Err("response body")
    ELSE IF ~writeOk THEN Err("output write")
    ELSE Ok("")

\* Mutation of ReturnsOnProbeError: the error is only logged, the run goes on.
ReturnsOnProbeError_WarnOnly(res) == FALSE

\* `match client.check_status().await { ... Err(e) => { ...; return Err(e); } }`
ReturnsOnProbeError(res) == ~res.ok

MainCmds == {"process_api", "monitor"}

ClientCmds == {"convert_chunk", "reset_session"}

InitClientIdle ==
    /\ cmd = "none"
    /\ inputExists = FALSE
    /\ mpc = "done"
    /\ requests = <<>>
    /\ resp = NoResponse
    /\ statusRes = NotCalled
    /\ result = NotCalled

InitClient ==
    /\ cmd \in MainCmds \cup ClientCmds
    /\ inputExists \in (IF cmd = "process_api" THEN BOOLEAN ELSE {TRUE})
    /\ mpc = "start"
    /\ requests = <<>>
    /\ resp = NoResponse
    /\ statusRes = NotCalled
    /\ result = NotCalled

\* process_audio_via_api, lines 314-329: bail out when the input is missing.
ProcessStart ==
    /\ mpc = "start"
    /\ cmd = "process_api"
    /\ IF ~inputExists
       THEN /\ result' = Err("input missing")
            /\ mpc' = "done"
       ELSE /\ mpc' = "probe"
            /\ UNCHANGED result
    /\ UNCHANGED <<cmd, inputExists, requests, resp, statusRes>>
    /\ UNCHANGED bufVars

\* monitor_realtime, lines 361-369: the client is created.
MonitorStart ==
    /\ mpc = "start"
    /\ cmd = "monitor"
    /\ mpc' = "probe"
    /\ UNCHANGED <<cmd, inputExists, requests, resp, statusRes, result>>
    /\ UNCHANGED bufVars

\* `client.check_status().await` of both entry points.
Probe(r) ==
    /\ mpc = "probe"
    /\ requests' = Append(requests, "GET /status")
    /\ resp' = r
    /\ statusRes' = CheckStatus(r)
    /\ mpc' = "probed"
    /\ UNCHANGED <<cmd, inputExists, result>>
    /\ UNCHANGED bufVars

\* The match on check_status's result: Err returns it; Ok goes on, which for
\* monitor_realtime is the notice that the mode is not implemented, and Ok(()).
ProbeHandled ==
    /\ mpc = "probed"
    /\ IF ReturnsOnProbeError(statusRes)
       THEN /\ result' = statusRes
            /\ mpc' = "done"
       ELSE IF cmd = "monitor"
            THEN /\ result' = Ok("")
                 /\ mpc' = "done"
            ELSE /\ mpc' = "convert"
                 /\ UNCHANGED result
    /\ UNCHANGED <<cmd, inputExists, requests, resp, statusRes>>
    /\ UNCHANGED bufVars

\* process_audio_via_api, lines 346-352: convert_file, its error returned by `?`.
ConvertFileCall(readOk, r, writeOk) ==
    /\ mpc = "convert"
    /\ requests' = IF readOk THEN Append(requests, "POST /convert") ELSE requests
    /\ resp' = IF readOk THEN r ELSE resp
    /\ result' = ConvertFile(readOk, r, writeOk)
    /\ mpc' = "done"
    /\ UNCHANGED <<cmd, inputExists, statusRes>>
    /\ UNCHANGED bufVars

\* A caller's client.convert_chunk(...).await.
ConvertChunkCall(r) ==
    /\ mpc = "start"
    /\ cmd = "convert_chunk"
    /\ requests' = Append(requests, "POST /convert-chunk")
    /\ resp' = r
    /\ result' = ConvertChunk(r)
    /\ mpc' = "done"
    /\ UNCHANGED <<cmd, inputExists, statusRes>>
    /\ UNCHANGED bufVars

\* A caller's client.reset_session(...).await.
ResetSessionCall(r) ==
    /\ mpc = "start"
    /\ cmd = "reset_session"
    /\ requests' = Append(requests, "POST /reset-session")
    /\ resp' = r
    /\ result' = ResetSession(r)
    /\ mpc' = "done"
    /\ UNCHANGED <<cmd, inputExists, statusRes>>
    /\ UNCHANGED bufVars

NextClient ==
    \/ ProcessStart
    \/ MonitorStart
    \/ \E r \in Responses : Probe(r)
    \/ ProbeHandled
    \/ \E readOk \in BOOLEAN, r \in Responses, writeOk \in BOOLEAN :
            ConvertFileCall(readOk, r, writeOk)
    \/ \E r \in Responses : ConvertChunkCall(r)
    \/ \E r \in Responses : ResetSessionCall(r)

\* Producer and consumer threads on one AudioBuffer; no run of main.
Init == InitBuffer /\ InitClientIdle

Next ==
    \/ \E n \in 0..(MaxCap + MaxOver) : n <= capacity + MaxOver /\ PushLock(n)
    \/ PushCheck
    \/ PushExtend
    \/ \E count \in 0..(MaxCap + MaxOver) : count <= capacity + MaxOver /\ TakeLock(count)
    \/ TakeBody
    \/ LenCall
    \/ ClearCall

Spec == Init /\ [][Next]_vars

\* A run of main or of the client; the AudioBuffer is not used by either.
InitRun == InitBuffer /\ capacity = MaxCap /\ InitClient

SpecClient == InitRun /\ [][NextClient]_vars

\* ================================================================ claims
\* The last n elements of s (all of s when it is shorter).
LastN(s, n) == IF Len(s) <= n THEN s ELSE SubSeq(s, Len(s) - n + 1, Len(s))

IsIncreasing(s) == \A i, j \in 1..Len(s) : i < j => s[i] < s[j]

\* Calls of the history: pushes and takes that returned.
ReturnedPush(r) == r.op = "push" /\ r.ok

ReturnedTake(r) == r.op = "take" /\ r.ok

\* C1: in every reachable state, whatever the batch sizes and counts of the
\* push, take and clear calls so far, 0 <= length <= capacity.
C1_LengthWithinCapacity == Len(buffer) >= 0 /\ Len(buffer) <= capacity

\* C1's case: a push overflowed, evicted, and left the buffer exactly full.
C1_Witness == evicted # {} /\ Len(buffer) = capacity /\ ppc = "idle"

\* C2 (the claim as stated): a push of more than `capacity` samples completes
\* and leaves exactly the last `capacity` samples of the batch.
C2_OversizedPushKeepsTail ==
    \A i \in 1..Len(ops) :
        (ops[i].op = "push" /\ Len(ops[i].data) > capacity) =>
            /\ ops[i].ok
            /\ ops[i].post = LastN(ops[i].data, capacity)

\* C3: a push that returns, of a batch no longer than capacity: on overflow
\* exactly overflow = length + |batch| - capacity of the oldest samples go and
\* the batch is appended (the buffer is the last `capacity` samples of old
\* contents followed by batch); without overflow nothing is removed.
C3_PushEvictsOldest ==
    \A i \in 1..Len(ops) :
        (ReturnedPush(ops[i]) /\ Len(ops[i].data) <= capacity) =>
            LET pre == ops[i].pre
                data == ops[i].data
                post == ops[i].post
            IN  IF Len(pre) + Len(data) > capacity
                THEN /\ post = LastN(pre \o data, capacity)
                     /\ post = SubSeq(pre, Len(pre) + Len(data) - capacity + 1, Len(pre)) \o data
                     /\ Len(post) = capacity
                ELSE post = pre \o data

\* C3's case: a push that evicted some, but not all, of a non-empty buffer.
C3_Witness ==
    \E i \in 1..Len(ops) :
        /\ ReturnedPush(ops[i])
        /\ Len(ops[i].data) >= 1
        /\ Len(ops[i].data) < capacity
        /\ Len(ops[i].pre) + Len(ops[i].data) > capacity
        /\ ops[i].post = <<ops[i].pre[Len(ops[i].pre)]>> \o ops[i].data

\* C4: a take that returns, asked for more than the buffer holds, returns
\* the empty result and leaves the buffer as it was.
C4_ShortTakeIsEmpty ==
    \A i \in 1..Len(ops) :
        (ReturnedTake(ops[i]) /\ Len(ops[i].pre) < ops[i].count) =>
            /\ ops[i].ret = <<>>
            /\ ops[i].post = ops[i].pre
            /\ Len(ops[i].post) = Len(ops[i].pre)

\* C4's case: a take of more than a non-empty buffer holds.
C4_Witness ==
    \E i \in 1..Len(ops) :
        /\ ReturnedTake(ops[i])
        /\ Len(ops[i].pre) >= 1
        /\ Len(ops[i].pre) < ops[i].count

\* C5: a take that returns, of at most what the buffer holds, returns the
\* `count` oldest samples in push order and leaves the others in order.
C5_TakeIsFifo ==
    \A i \in 1..Len(ops) :
        (ReturnedTake(ops[i]) /\ Len(ops[i].pre) >= ops[i].count) =>
            LET pre == ops[i].pre
                n == ops[i].count
            IN  /\ IsIncreasing(pre)
                /\ ops[i].ret = SubSeq(pre, 1, n)
                /\ ops[i].post = SubSeq(pre, n + 1, Len(pre))
                /\ Len(ops[i].post) = Len(pre) - n
                /\ pre = ops[i].ret \o ops[i].post

\* C5's case: a take of some, but not all, of the buffer.
C5_Witness ==
    \E i \in 1..Len(ops) :
        /\ ReturnedTake(ops[i])
        /\ ops[i].count >= 1
        /\ Len(ops[i].pre) > ops[i].count

\* A push that returned without overflow, and the take of the same size that
\* came right after it.
PushThenTake ==
    /\ Len(ops) = 2
    /\ ReturnedPush(ops[1])
    /\ ReturnedTake(ops[2])
    /\ ops[2].count = Len(ops[1].data)
    /\ Len(ops[1].pre) + Len(ops[1].data) <= capacity

\* C6 (the claim as stated): from any buffer state, push then take of the
\* same size returns the pushed samples when the push did not overflow.
C6_RoundTripAnyState == PushThenTake => ops[2].ret = ops[1].data

\* C6 (amended): the same, for a push onto an empty buffer (or of an empty batch).
C6_RoundTripOnEmpty ==
    (PushThenTake /\ (ops[1].pre = <<>> \/ ops[1].data = <<>>)) =>
        ops[2].ret = ops[1].data

\* C6's case: a non-empty batch pushed onto an empty buffer and taken back.
C6_Witness ==
    /\ PushThenTake
    /\ ops[1].pre = <<>>
    /\ Len(ops[1].data) >= 2
    /\ ops[2].ret = ops[1].data

\* Every sample handed to push so far that was neither evicted by an
\* overflowing push nor dropped by clear(), in push order.
Survivors ==
    SelectSeq(Batch(1, nextId - 1), LAMBDA x : x \notin (evicted \cup cleared))

\* C7 (the claim as stated): what take returned, then what the buffer holds,
\* then the batch of the push in progress, is exactly the samples handed to
\* push minus the evicted ones, in order and without duplicates.
C7_NoSampleLost == Survivors = taken \o buffer \o pdata

\* The part of C7 that survives an aborted push: what take returned and what
\* is still buffered or in flight is in push order, without duplicates.
TakenInPushOrder == IsIncreasing(taken \o buffer \o pdata)

\* C10: as long as no push was handed more than `capacity` samples, no call
\* has aborted and the lock is not poisoned.
C10_NoAbortWithinCapacity ==
    ~oversized => (~poisoned /\ \A i \in 1..Len(ops) : ops[i].ok)

\* C10's case: pushes within capacity that overflowed and evicted, takes
\* served, and the latest calls returned.
C10_Witness ==
    /\ ~oversized
    /\ evicted # {}
    /\ taken # <<>>
    /\ Len(ops) = 2
    /\ ops[1].op = "clear"
    /\ ops[2].op = "len"
    /\ ops[2].ok

\* reqwest's StatusCode::is_success: 200..=299.
IsSuccess(status) == status >= 200 /\ status <= 299

\* C8 (the claim as stated): convert_chunk returns an error whenever the
\* server is unreachable or answers with a non-success status, and converted
\* bytes only when the call succeeded.
C8_ChunkErrorOnFailure ==
    (cmd = "convert_chunk" /\ mpc = "done") =>
        /\ (resp.net = "unreachable" \/ ~IsSuccess(resp.status)) => ~result.ok
        /\ result.ok => (resp.net = "answered" /\ IsSuccess(resp.status))

\* C9: process (via the API) and monitor issue GET /status before anything
\* else, go past start-up only once it succeeded, and after a failed probe
\* return that error having issued no other request.
C9_ProbeGatesTheRun ==
    cmd \in MainCmds =>
        /\ requests # <<>> => requests[1] = "GET /status"
        /\ (mpc = "convert" \/ Len(requests) > 1) => statusRes.ok
        /\ (statusRes.called /\ ~statusRes.ok /\ mpc = "done") =>
                (result = statusRes /\ requests = <<"GET /status">>)
        /\ \A i \in 1..Len(requests) :
                requests[i] \notin {"POST /convert-chunk", "POST /reset-session"}

\* C9's case: the file-processing run ended on the error of its failed probe.
C9_Witness ==
    /\ cmd = "process_api"
    /\ mpc = "done"
    /\ statusRes.called
    /\ ~statusRes.ok
    /\ ~result.ok

====
